---- MODULE Spec2Model ----
(***************************************************************************)
(* Model of the yfinance market collector (market_yfinance_collector.py)   *)
(* and of its log monitor (monitor.py).                                    *)
(*                                                                         *)
(* The persistent state is the set of log files on disk.  collect() is     *)
(* modelled as the steps CollectStart, Attempt (once per retry attempt)    *)
(* and WriteRow; monitor.main() is the single step MonitorMain.            *)
(* Spec runs the collector and the monitor, MonSpec the monitor on audited *)
(* logs, CallSpec the collector's functions on their own.                  *)
(***************************************************************************)
EXTENDS Integers, Sequences, FiniteSets, TLC

VARIABLES
    now,            \* wall clock, whole seconds
    out_csv,        \* the file at OUT_CSV (market_yfinance_log.csv)
    bad_files,      \* quarantined files, keyed by their _ts_suffix()
    retry_trials,   \* the file at RETRY_TRIALS_CSV
    http_probe,     \* the records of YAHOO_HTTP_PROBE_JSONL
    runs,           \* number of collect() invocations started so far
    pc,             \* position of the collector: idle, attempt, write, done
    run_id,         \* collect(): run_id
    attempt,        \* collect(): loop variable
    results,        \* collect(): results, asset name -> AssetResult
    last_err,       \* collect(): last_err
    exit_code,      \* value returned by collect(), -1 while it runs
    hist,           \* history of the current run (what it called and wrote)
    calls,          \* provider calls made so far, over all runs
    environ,        \* environment of the monitor: MONITOR_FAIL_ON_ANOMALY
    mon,            \* outcome of the last monitor.main() invocation
    call,           \* the last direct call of a function of the collector
    proc            \* the collector processes running concurrently

vars == <<now, out_csv, bad_files, retry_trials, http_probe, runs, pc, run_id,
          attempt, results, last_err, exit_code, hist, calls, environ, mon,
          call, proc>>

collector_vars == <<now, bad_files, retry_trials, http_probe, runs, pc, run_id,
                    attempt, results, last_err, exit_code, hist, calls>>

(***************************************************************************)
(* Bounds of the model.                                                    *)
(***************************************************************************)
MaxCalls == 2       \* collect() starts while fewer provider calls were made
MaxOlder == 1       \* rows of an audited log older than its last two rows

(***************************************************************************)
(* Values of CSV fields and of data-frame cells: a number, a string, NaN.  *)
(***************************************************************************)
Num(n) == [k |-> "num", n |-> n, s |-> ""]
Str(s) == [k |-> "str", n |-> 0, s |-> s]
NaN == [k |-> "nan", n |-> 0, s |-> ""]

Min(a, b) == IF a <= b THEN a ELSE b
Abs(x) == IF x < 0 THEN -x ELSE x

(***************************************************************************)
(* Config of the collector.                                                *)
(***************************************************************************)
ASSETS ==
    << [name |-> "USDJPY", ticker |-> "JPY=X"],
       [name |-> "BTC",    ticker |-> "BTC-USD"],
       [name |-> "Gold",   ticker |-> "GC=F"],
       [name |-> "US10Y",  ticker |-> "^TNX"],
       [name |-> "Oil",    ticker |-> "CL=F"],
       [name |-> "VIX",    ticker |-> "^VIX"] >>

\* ASSETS.keys(), list(ASSETS.values())
AssetKeys == [i \in 1..Len(ASSETS) |-> ASSETS[i].name]
AssetValues == [i \in 1..Len(ASSETS) |-> ASSETS[i].ticker]
AssetNameSet == {ASSETS[i].name : i \in 1..Len(ASSETS)}
TickerSet == {ASSETS[i].ticker : i \in 1..Len(ASSETS)}

MAX_RETRIES == 4
BASE_SLEEP == 15

(***************************************************************************)
(* Time and ids.  A timestamp is rendered to the second; the random part   *)
(* of a run id is drawn from RandomParts.                                  *)
(***************************************************************************)
RandomParts == {100000, 999999}

now_jst_str(t) == ToString(t)
new_run_id(t, r) == ToString(t) \o "Z_" \o ToString(r)
_ts_suffix(t) == ToString(t)

(***************************************************************************)
(* CSV schema.                                                             *)
(***************************************************************************)
AssetColumnsOf(a) ==
    <<a, a \o "_missing", a \o "_source", a \o "_date", a \o "_fail">>

RECURSIVE Flatten(_)
Flatten(ss) == IF ss = <<>> THEN <<>> ELSE Head(ss) \o Flatten(Tail(ss))

_expected_columns_no_fail ==
    <<"run_id", "timestamp_jst">>
    \o Flatten([i \in 1..Len(AssetKeys) |-> SubSeq(AssetColumnsOf(AssetKeys[i]), 1, 4)])
_expected_columns ==
    <<"run_id", "timestamp_jst">>
    \o Flatten([i \in 1..Len(AssetKeys) |-> AssetColumnsOf(AssetKeys[i])])

EXPECTED_COLS == _expected_columns

(***************************************************************************)
(* Files.  A file is absent, or holds lines; a line is its fields and      *)
(* whether it was written with QUOTE_ALL.  garbage marks content that no   *)
(* CSV reader accepts (undecodable bytes, no columns).  The first line of  *)
(* a file is what a reader takes as the header.                            *)
(***************************************************************************)
AbsentFile == [exists |-> FALSE, garbage |-> FALSE, lines |-> <<>>]
EmptyFile == [exists |-> TRUE, garbage |-> FALSE, lines |-> <<>>]
GarbageFile == [exists |-> TRUE, garbage |-> TRUE, lines |-> <<>>]

Line(fields) == [q |-> TRUE, f |-> fields]
HeaderLine(cols) == Line([i \in 1..Len(cols) |-> Str(cols[i])])
FileOf(lines) == [exists |-> TRUE, garbage |-> FALSE, lines |-> lines]

path_exists(file) == file.exists
getsize(file) == IF file.garbage THEN 1 ELSE Len(file.lines)

\* _read_first_line: the first line as text (quoting included)
_read_first_line(file) ==
    IF file.lines = <<>> THEN [q |-> FALSE, f |-> <<>>] ELSE file.lines[1]

ColumnName(c) == IF c.k = "str" THEN c.s ELSE "unnamed"
ColumnsOf(line) == [i \in 1..Len(line.f) |-> ColumnName(line.f[i])]

\* a data line with more fields than the header is a parser error
TooLong(file, i) == Len(file.lines[i].f) > Len(file.lines[1].f)

\* pd.read_csv(path, nrows=n, engine="python") raises
read_csv_raises(file, nrows) ==
    \/ file.garbage
    \/ file.lines = <<>>
    \/ \E i \in 2..Min(Len(file.lines), 1 + nrows) : TooLong(file, i)

\* df.to_csv(path, mode="a", header=header, quoting=QUOTE_ALL): the header
\* line when asked for, then the one row
to_csv_append_always_header(file, header, cols, row) ==
    [exists |-> TRUE,
     garbage |-> file.garbage,
     lines |-> file.lines \o <<HeaderLine(cols), Line(row)>>]
to_csv_append(file, header, cols, row) ==
    [exists |-> TRUE,
     garbage |-> file.garbage,
     lines |-> file.lines
               \o (IF header THEN <<HeaderLine(cols)>> ELSE <<>>)
               \o <<Line(row)>>]

\* header = (not os.path.exists(p)) or os.path.getsize(p) == 0
needs_header(file) == (~path_exists(file)) \/ getsize(file) = 0

(***************************************************************************)
(* SchemaGuard.  Each operator yields the file at the path and the         *)
(* quarantined files after the call.                                       *)
(***************************************************************************)
\* shutil.move(path, "<stem>.bad_<ts>.csv"): an earlier file of that name
\* is replaced
_quarantine_copy(file, bad, t) ==
    [file |-> file, bad |-> (_ts_suffix(t) :> file) @@ bad]
_quarantine(file, bad, t) ==
    [file |-> AbsentFile, bad |-> (_ts_suffix(t) :> file) @@ bad]

ExpectedFirstLine == HeaderLine(EXPECTED_COLS)

_ensure_csv_body_only(file, bad, t) ==
    IF ~path_exists(file) THEN [file |-> file, bad |-> bad]
    ELSE IF getsize(file) = 0 THEN [file |-> file, bad |-> bad]
    ELSE IF read_csv_raises(file, Len(file.lines))
         THEN _quarantine(file, bad, t)
         ELSE [file |-> file, bad |-> bad]
_ensure_csv_header_or_quarantine(file, bad, t) ==
    IF ~path_exists(file) THEN [file |-> file, bad |-> bad]
    ELSE IF getsize(file) = 0 THEN [file |-> file, bad |-> bad]
    ELSE IF _read_first_line(file) # ExpectedFirstLine
         THEN IF read_csv_raises(file, 1)
              THEN _quarantine(file, bad, t)                  \* read_fail
              ELSE IF ColumnsOf(file.lines[1]) # EXPECTED_COLS
                   THEN _quarantine(file, bad, t)             \* header_mismatch
                   ELSE [file |-> file, bad |-> bad]
    ELSE IF read_csv_raises(file, Len(file.lines))
         THEN _quarantine(file, bad, t)                       \* parse_fail
         ELSE [file |-> file, bad |-> bad]

(***************************************************************************)
(* The provider's answer: no frame (the call raised err), or a frame with  *)
(* an index of timestamps and columns.  A column key is <<level0, level1>> *)
(* under a MultiIndex and <<name, "">> otherwise; dup holds the keys that  *)
(* occur more than once (selecting one yields a frame, not a series).      *)
(***************************************************************************)
NoFrame(err) ==
    [none |-> TRUE, err |-> err, multi |-> FALSE, cols |-> {}, dup |-> {},
     index |-> <<>>, data |-> <<>>]

Frame(multi, cols, index, data) ==
    [none |-> FALSE, err |-> "", multi |-> multi, cols |-> cols, dup |-> {},
     index |-> index, data |-> data]

df_empty(df) == df.index = <<>> \/ df.cols = {}

IsNumeric(c) == c.k = "num"

\* pd.to_numeric(s, errors="coerce").dropna(): the numeric entries, in order
to_numeric_dropna(s) == SelectSeq(s, IsNumeric)

Failure(why) == [some |-> FALSE, v |-> 0, why |-> why]
Price(v) == [some |-> TRUE, v |-> v, why |-> ""]

CloseSeries_unchecked(df, key) ==
    IF key \in df.dup THEN Failure("ExtractErr:TypeError")
    ELSE LET s == to_numeric_dropna(df.data[key])
         IN  IF s = <<>> THEN Failure("NoNumericClose") ELSE Price(s[Len(s)].n)
CloseSeries(df, key) ==
    IF key \in df.dup THEN Failure("ExtractErr:TypeError")
    ELSE LET s == to_numeric_dropna(df.data[key])
         IN  IF s = <<>> THEN Failure("NoNumericClose")
             ELSE LET v == s[Len(s)].n
                  IN  IF ~(v > 0) THEN Failure("NonPositive") ELSE Price(v)

\* without the (ticker, "Close") lookup
_extract_last_close_one_shape(df, ticker) ==
    IF df.none \/ df_empty(df) THEN Failure("EmptyDF")
    ELSE IF df.multi
         THEN IF <<"Close", ticker>> \in df.cols
              THEN CloseSeries(df, <<"Close", ticker>>)
              ELSE Failure("CloseNotFoundForTicker")
         ELSE IF <<"Close", "">> \in df.cols
              THEN CloseSeries(df, <<"Close", "">>)
              ELSE Failure("CloseMissing")
\* with a fallback to any Close column when the ticker has none
_extract_last_close_guess(df, ticker) ==
    IF df.none \/ df_empty(df) THEN Failure("EmptyDF")
    ELSE IF df.multi
         THEN IF <<"Close", ticker>> \in df.cols
              THEN CloseSeries(df, <<"Close", ticker>>)
              ELSE IF <<ticker, "Close">> \in df.cols
                   THEN CloseSeries(df, <<ticker, "Close">>)
                   ELSE IF \E c \in df.cols : c[1] = "Close"
                        THEN CloseSeries(df, CHOOSE c \in df.cols : c[1] = "Close")
                        ELSE Failure("CloseNotFoundForTicker")
         ELSE IF <<"Close", "">> \in df.cols
              THEN CloseSeries(df, <<"Close", "">>)
              ELSE Failure("CloseMissing")
_extract_last_close(df, ticker) ==
    IF df.none \/ df_empty(df) THEN Failure("EmptyDF")
    ELSE IF df.multi
         THEN IF <<"Close", ticker>> \in df.cols
              THEN CloseSeries(df, <<"Close", ticker>>)
              ELSE IF <<ticker, "Close">> \in df.cols
                   THEN CloseSeries(df, <<ticker, "Close">>)
                   ELSE Failure("CloseNotFoundForTicker")
         ELSE IF <<"Close", "">> \in df.cols
              THEN CloseSeries(df, <<"Close", "">>)
              ELSE Failure("CloseMissing")

\* str(df.index[-1])[:10]: the calendar day of the frame's last index entry
IndexEntry(day, tod) == [day |-> day, tod |-> tod]
last_index_date(df) == IF df_empty(df) THEN "" ELSE df.index[Len(df.index)].day

\* the (value, default) idiom of Python's `x or d` on strings
OrElse(x, d) == IF x = "" THEN d ELSE x

AssetResult(price, missing, source, date, fail) ==
    [price |-> price, missing |-> missing, source |-> source, date |-> date,
     fail |-> fail]

\* body of the per-asset loop of collect(), lines 326-343
asset_result(df, ticker) ==
    IF df.none
    THEN AssetResult(0, 1, "yfinance", "", OrElse(df.err, "DownloadFailed"))
    ELSE LET x == _extract_last_close(df, ticker)
         IN  IF ~x.some
             THEN AssetResult(0, 1, "yfinance", "", OrElse(x.why, "Unknown"))
             ELSE AssetResult(x.v, 0, "yfinance", last_index_date(df), "")

\* results after one attempt: every asset's entry is assigned
attempt_results(df) ==
    [a \in AssetNameSet |->
        asset_result(df, ASSETS[CHOOSE i \in 1..Len(ASSETS) : ASSETS[i].name = a].ticker) ]

(***************************************************************************)
(* The provider.  One batched download answers with no frame (the call     *)
(* raised), an empty frame, or a two-level frame with an Open and a Close  *)
(* column per ticker; the tickers in `failing` have an all-NaN series.     *)
(***************************************************************************)
Quotes == <<150, 90000, 2500, 4, 70, 15>>
QuoteOf(ticker) == Quotes[CHOOSE i \in 1..Len(ASSETS) : ASSETS[i].ticker = ticker]

TwoDays ==
    << IndexEntry("2026-01-14", "00:00:00"), IndexEntry("2026-01-15", "00:00:00") >>

BatchFrame(failing) ==
    LET cols == {<<"Close", t>> : t \in TickerSet} \cup {<<"Open", t>> : t \in TickerSet}
    IN  Frame(TRUE, cols, TwoDays,
              [c \in cols |->
                  IF c[2] \in failing THEN <<NaN, NaN>>
                  ELSE <<Num(QuoteOf(c[2]) + 1), Num(QuoteOf(c[2]))>>])

EmptyFrame == Frame(TRUE, {}, <<>>, <<>>)

ProviderAnswers ==
    { NoFrame("ConnectionError"), EmptyFrame, BatchFrame({"^VIX"}), BatchFrame({}) }

\* _yf_download_multi: (df, err)
_yf_download_multi(answer) == [df |-> answer, err |-> answer.err]

(***************************************************************************)
(* Log rows.                                                               *)
(***************************************************************************)
RECURSIVE Join(_)
Join(ss) ==
    IF ss = <<>> THEN ""
    ELSE IF Len(ss) = 1 THEN ss[1]
    ELSE ss[1] \o " " \o Join(Tail(ss))

TRIAL_COLS ==
    <<"run_id", "timestamp_jst", "attempt", "symbols", "ok_count", "fail_count",
      "error", "sleep_sec">>

\* the row of _append_retry_trial, in the order of its dict
trial_row(rid, t, att, ok_count, fail_count, err, sleep_sec, tickers) ==
    << Str(rid), Str(now_jst_str(t)), Num(att), Str(Join(tickers)), Num(ok_count),
       Num(fail_count), Str(err), Num(sleep_sec) >>

_append_retry_trial_failed_only(file, rid, t, att, ok_count, fail_count, err, sleep_sec, tickers) ==
    IF fail_count = 0 THEN file
    ELSE to_csv_append(file, needs_header(file), TRIAL_COLS,
                       trial_row(rid, t, att, ok_count, fail_count, err, sleep_sec, tickers))
_append_retry_trial(file, rid, t, att, ok_count, fail_count, err, sleep_sec, tickers) ==
    to_csv_append(file, needs_header(file), TRIAL_COLS,
                  trial_row(rid, t, att, ok_count, fail_count, err, sleep_sec, tickers))

\* _probe_yahoo_quote_api: one record per call, whether the request
\* succeeded or raised; the response fields are not modelled
_probe_yahoo_quote_api(log, rid, phase, att) ==
    Append(log, [run_id |-> rid, phase |-> phase, attempt |-> att])

\* results.get(a, AssetResult(0.0, 1, "missing", "", "NoResult"))
results_get(res, a) ==
    IF a \in DOMAIN res THEN res[a] ELSE AssetResult(0, 1, "missing", "", "NoResult")

\* the dict `row` of collect(), lines 368-375
row_dict(rid, t, res) ==
    LET keys == {"run_id", "timestamp_jst"}
                \cup UNION {{AssetColumnsOf(a)[j] : j \in 1..5} : a \in AssetNameSet}
    IN  [c \in keys |->
            IF c = "run_id" THEN Str(rid)
            ELSE IF c = "timestamp_jst" THEN Str(now_jst_str(t))
            ELSE LET a == CHOOSE x \in AssetNameSet :
                              \E j \in 1..5 : AssetColumnsOf(x)[j] = c
                     r == results_get(res, a)
                 IN  IF c = a THEN Num(r.price)
                     ELSE IF c = a \o "_missing" THEN Num(r.missing)
                     ELSE IF c = a \o "_source" THEN Str(r.source)
                     ELSE IF c = a \o "_date" THEN Str(r.date)
                     ELSE Str(r.fail)]

\* pd.DataFrame([row], columns=cols): the columns asked for, in that order,
\* NaN where the dict has no such key
frame_row(row, cols) ==
    [i \in 1..Len(cols) |-> IF cols[i] \in DOMAIN row THEN row[cols[i]] ELSE NaN]

(***************************************************************************)
(* collect()                                                               *)
(***************************************************************************)
\* what the current run has done so far: provider calls, sleeps requested,
\* assets extracted at some attempt, and the line counts of the two CSV
\* files when the loop was entered
History(csv_lines, trial_lines) ==
    [calls |-> 0, sleeps |-> <<>>, ever_ok |-> {}, csv_lines |-> csv_lines,
     trial_lines |-> trial_lines]
NoHistory == History(0, 0)

\* lines 304-314: run id, SchemaGuard, empty results
CollectStart ==
    /\ pc \in {"idle", "done"}
    /\ calls < MaxCalls
    /\ \E r \in RandomParts : run_id' = new_run_id(now, r)
    /\ LET g == _ensure_csv_header_or_quarantine(out_csv, bad_files, now)
       IN  /\ out_csv' = g.file
           /\ bad_files' = g.bad
    /\ results' = <<>>
    /\ last_err' = ""
    /\ attempt' = 1
    /\ exit_code' = -1
    /\ runs' = runs + 1
    /\ hist' = History(Len(out_csv'.lines), Len(retry_trials.lines))
    /\ pc' = "attempt"
    /\ UNCHANGED <<now, retry_trials, http_probe, calls, environ, mon, call, proc>>

\* sleep_sec = 0.0 if all_ok else (BASE_SLEEP * (2 ** (attempt - 1)))
sleep_sec_off_by_one(all_ok, att) == IF all_ok THEN 0 ELSE BASE_SLEEP * (2 ^ att)
sleep_sec_of(all_ok, att) == IF all_ok THEN 0 ELSE BASE_SLEEP * (2 ^ (att - 1))

\* random.uniform(0.0, 2.0), in whole seconds
Jitter == {1}

\* _sleep_with_jitter: the duration handed to time.sleep
_sleep_with_full_jitter(sec, j) == sec * j
_sleep_with_jitter(sec, j) == sec + j

\* the loop goes on: not all_ok, and attempt < MAX_RETRIES
should_retry_unbounded(all_ok, att) == ~all_ok
should_retry_after_success(all_ok, att) == att < MAX_RETRIES
should_retry(all_ok, att) == (~all_ok) /\ att < MAX_RETRIES

\* one iteration of the loop of lines 316-365
Attempt ==
    /\ pc = "attempt"
    /\ attempt <= MAX_RETRIES
    /\ \E answer \in ProviderAnswers, j \in Jitter :
         LET dl == _yf_download_multi(answer)
             res == attempt_results(dl.df)
             ok == Cardinality({a \in AssetNameSet : res[a].missing = 0})
             fail == Cardinality({a \in AssetNameSet : res[a].missing = 1})
             all_ok == (ok = Len(ASSETS))
             sleep_sec == sleep_sec_of(all_ok, attempt)
             retry == should_retry(all_ok, attempt)
             probed == _probe_yahoo_quote_api(http_probe, run_id, "pre_download", attempt)
         IN  /\ results' = res
             /\ last_err' = dl.err
             /\ retry_trials' = _append_retry_trial(retry_trials, run_id, now, attempt,
                                                    ok, fail, dl.err, sleep_sec,
                                                    AssetValues)
             /\ http_probe' = IF retry
                              THEN _probe_yahoo_quote_api(probed, run_id, "after_fail", attempt)
                              ELSE probed
             /\ now' = IF retry THEN now + _sleep_with_jitter(sleep_sec, j) ELSE now
             /\ attempt' = IF retry THEN attempt + 1 ELSE attempt
             /\ pc' = IF retry THEN "attempt" ELSE "write"
             /\ calls' = calls + 1
             /\ hist' = [hist EXCEPT
                           !.calls = @ + 1,
                           !.sleeps = IF retry
                                      THEN Append(@, _sleep_with_jitter(sleep_sec, j))
                                      ELSE @,
                           !.ever_ok = @ \cup {a \in AssetNameSet : res[a].missing = 0}]
    /\ UNCHANGED <<out_csv, bad_files, runs, run_id, exit_code, environ, mon, call,
                 proc>>

\* lines 367-401: append the row, return 0
WriteRow ==
    /\ pc = "write"
    /\ LET row == frame_row(row_dict(run_id, now, results), EXPECTED_COLS)
       IN  out_csv' = to_csv_append(out_csv, needs_header(out_csv), EXPECTED_COLS, row)
    /\ exit_code' = 0
    /\ pc' = "done"
    /\ UNCHANGED <<now, bad_files, retry_trials, http_probe, runs, run_id, attempt,
                   results, last_err, hist, calls, environ, mon, call, proc>>

(***************************************************************************)
(* monitor.py                                                              *)
(***************************************************************************)
MON_ASSETS == <<"USDJPY", "BTC", "Gold", "US10Y", "Oil", "VIX">>

\* PLAUSIBLE_RANGES, in tenths: <<10 * lo, 10 * hi>>
PLAUSIBLE_RANGES ==
    [USDJPY |-> <<500, 3000>>, BTC |-> <<10000, 10000000>>, Gold |-> <<2000, 200000>>,
     US10Y |-> <<0, 200>>, Oil |-> <<1, 5000>>, VIX |-> <<1, 2000>>]

\* MAX_PCT_JUMP_WARN, in hundredths: 100 * thr
MAX_PCT_JUMP_WARN ==
    [USDJPY |-> 5, BTC |-> 20, Gold |-> 10, US10Y |-> 20, Oil |-> 30, VIX |-> 100]

\* float(x), NaN and anything float() rejects mapped to 0.0
_as_float(x) == IF x.k = "num" THEN x.n ELSE 0

\* int(x), NaN and anything int() rejects mapped to 0
_as_int(x) == IF x.k = "num" THEN x.n ELSE 0

\* what pandas makes of a field it reads: an empty field is NaN
read_field(c) == IF c.k = "str" /\ c.s = "" THEN NaN ELSE c

DataFrame(cols, rows) == [cols |-> cols, rows |-> rows]

\* the data lines of a file, those with too many fields left out
GoodLines(file) ==
    LET idx == SelectSeq([i \in 1..Len(file.lines) |-> i],
                         LAMBDA i : i > 1 /\ ~TooLong(file, i))
    IN  [j \in 1..Len(idx) |-> file.lines[idx[j]].f]

_read_csv_safely(file) ==
    IF (~path_exists(file)) \/ getsize(file) = 0 THEN DataFrame(<<>>, <<>>)
    ELSE IF ~read_csv_raises(file, Len(file.lines))
         THEN DataFrame(ColumnsOf(file.lines[1]), GoodLines(file))
         \* engine="python", on_bad_lines="skip"
         ELSE IF file.garbage THEN DataFrame(<<>>, <<>>)
              ELSE DataFrame(ColumnsOf(file.lines[1]), GoodLines(file))

\* df.empty
frame_empty_cols_only(df) == df.cols = <<>>
frame_empty(df) == df.cols = <<>> \/ df.rows = <<>>

\* latest = df.iloc[-1]; prev = df.iloc[-2] if len(df) >= 2 else None
\* (a row index of 0 stands for None)
_get_latest_rows_first(df) == [latest |-> 1, prev |-> IF Len(df.rows) >= 2 THEN 2 ELSE 0]
_get_latest_rows(df) ==
    [latest |-> Len(df.rows), prev |-> IF Len(df.rows) >= 2 THEN Len(df.rows) - 1 ELSE 0]

\* row.get(col, default) on row i of df: a short line is padded with NaN
row_get(df, i, col, default) ==
    IF \E c \in 1..Len(df.cols) : df.cols[c] = col
    THEN LET c == CHOOSE c \in 1..Len(df.cols) : df.cols[c] = col
         IN  IF c <= Len(df.rows[i]) THEN read_field(df.rows[i][c]) ELSE NaN
    ELSE default

\* is_missing = not (ok == 1 and v > 0)
is_missing_flag_only(df, latest, a) ==
    LET ok == _as_int(row_get(df, latest, a \o "_ok", Num(0)))
    IN  ~(ok = 1)
is_missing(df, latest, a) ==
    LET v == _as_float(row_get(df, latest, a, Num(0)))
        ok == _as_int(row_get(df, latest, a \o "_ok", Num(0)))
    IN  ~(ok = 1 /\ v > 0)

\* warning 1 of the loop body: the value is outside the plausible range
range_warning(df, latest, a) ==
    LET v == _as_float(row_get(df, latest, a, Num(0)))
    IN  /\ ~is_missing(df, latest, a)
        /\ a \in DOMAIN PLAUSIBLE_RANGES
        /\ ~(PLAUSIBLE_RANGES[a][1] <= 10 * v /\ 10 * v <= PLAUSIBLE_RANGES[a][2])

\* pct > thr, with pct = abs(v - pv) / pv and pv > 0
exceeds_or_equals(v, pv, thr100) == Abs(v - pv) * 100 >= thr100 * pv
exceeds(v, pv, thr100) == Abs(v - pv) * 100 > thr100 * pv

\* warning 2 of the loop body: the jump against the previous row
jump_warning(df, latest, prev, a) ==
    LET v == _as_float(row_get(df, latest, a, Num(0)))
    IN  /\ prev # 0
        /\ ~is_missing(df, latest, a)
        /\ LET pv == _as_float(row_get(df, prev, a, Num(0)))
           IN  /\ pv > 0
               /\ a \in DOMAIN MAX_PCT_JUMP_WARN
               /\ exceeds(v, pv, MAX_PCT_JUMP_WARN[a])

Warning(a, kind) == [asset |-> a, kind |-> kind]

\* the lists `missing` and `warnings` after the loop of lines 112-140
missing_list(df, latest) ==
    SelectSeq(MON_ASSETS, LAMBDA a : is_missing(df, latest, a))

warnings_list(df, latest, prev) ==
    Flatten([i \in 1..Len(MON_ASSETS) |->
        (IF range_warning(df, latest, MON_ASSETS[i])
         THEN <<Warning(MON_ASSETS[i], "range")>> ELSE <<>>)
        \o (IF jump_warning(df, latest, prev, MON_ASSETS[i])
            THEN <<Warning(MON_ASSETS[i], "jump")>> ELSE <<>>)])

\* the outcome of main(): how it ended, its exit status, the row it took as
\* latest, the assets it classified, and its lists `missing` and `warnings`
MonIdle ==
    [pc |-> "idle", exit |-> -1, latest |-> <<>>, classified |-> <<>>,
     missing |-> <<>>, warnings |-> <<>>]

MonExit(code, latest, classified, missing, warnings) ==
    [pc |-> "exited", exit |-> code, latest |-> latest,
     classified |-> classified, missing |-> missing, warnings |-> warnings]

\* an exception other than SystemExit leaves main()
MonRaised ==
    [pc |-> "raised", exit |-> 1, latest |-> <<>>, classified |-> <<>>,
     missing |-> <<>>, warnings |-> <<>>]

\* the exit status once the loop is over, lines 147-160
exit_status_anomaly_fatal(missing, warnings, foa) ==
    IF missing # <<>> THEN 1 ELSE IF warnings # <<>> THEN 1 ELSE 0
exit_status(missing, warnings, foa) ==
    IF missing # <<>> THEN 1 ELSE IF foa /\ warnings # <<>> THEN 1 ELSE 0

\* main(), with FAIL_ON_ANOMALY = foa, on the file at CSV_PATH
main(file, foa) ==
    LET df == _read_csv_safely(file)
    IN  IF frame_empty(df) THEN MonExit(1, <<>>, <<>>, <<>>, <<>>)
        ELSE IF df.rows = <<>> THEN MonRaised            \* df.iloc[-1]: IndexError
        ELSE LET lp == _get_latest_rows(df)
                 missing == missing_list(df, lp.latest)
                 warnings == warnings_list(df, lp.latest, lp.prev)
             IN  MonExit(exit_status(missing, warnings, foa), df.rows[lp.latest],
                         MON_ASSETS, missing, warnings)

\* FAIL_ON_ANOMALY = os.environ.get("MONITOR_FAIL_ON_ANOMALY", "0") == "1"
FAIL_ON_ANOMALY(env) == env = "1"

MonitorMain ==
    /\ mon' = main(out_csv, FAIL_ON_ANOMALY(environ))
    /\ UNCHANGED <<out_csv, environ, collector_vars, call, proc>>

(***************************************************************************)
(* Initial states and specifications.                                      *)
(***************************************************************************)
\* the row an earlier run left in the primary log
EarlierRow(answer) ==
    frame_row(row_dict(new_run_id(0, 555555), 0, attempt_results(answer)), EXPECTED_COLS)

\* EXPECTED_COLS with <asset>_ok in the place of <asset>_missing
OK_SCHEMA_COLS ==
    <<"run_id", "timestamp_jst">>
    \o Flatten([i \in 1..Len(AssetKeys) |->
           LET a == AssetKeys[i]
           IN  <<a, a \o "_ok", a \o "_source", a \o "_date", a \o "_fail">>])

SchemaCols(schema) == IF schema = "ok" THEN OK_SCHEMA_COLS ELSE EXPECTED_COLS

\* the files collect() may find at OUT_CSV
InitialLogs ==
    { AbsentFile,
      EmptyFile,
      FileOf(<<ExpectedFirstLine, Line(EarlierRow(BatchFrame({})))>>),
      FileOf(<<HeaderLine(OK_SCHEMA_COLS), Line(EarlierRow(BatchFrame({})))>>),
      FileOf(<<ExpectedFirstLine,
               Line(EarlierRow(BatchFrame({})) \o <<Str("x"), Str("y")>>)>>),
      FileOf(<<HeaderLine(OK_SCHEMA_COLS),
               Line(EarlierRow(BatchFrame({})) \o <<Str("x"), Str("y")>>)>>),
      \* the expected columns in a header written without quotes, a good
      \* row, then a row with too many fields
      FileOf(<<[q |-> FALSE, f |-> ExpectedFirstLine.f],
               Line(EarlierRow(BatchFrame({}))),
               Line(EarlierRow(BatchFrame({})) \o <<Str("x"), Str("y")>>)>>) }

\* no function has been called directly
NoCall == [op |-> "none"]

\* no concurrent collector process
NoProcs == <<>>

CollectorIdle ==
    /\ now = 100
    /\ bad_files = <<>>
    /\ retry_trials = AbsentFile
    /\ http_probe = <<>>
    /\ runs = 0
    /\ pc = "idle"
    /\ run_id = ""
    /\ attempt = 0
    /\ results = <<>>
    /\ last_err = ""
    /\ exit_code = -1
    /\ hist = NoHistory
    /\ calls = 0

Init ==
    /\ CollectorIdle
    /\ out_csv \in InitialLogs
    /\ environ = "0"
    /\ mon = MonIdle
    /\ call = NoCall
    /\ proc = NoProcs

Next == CollectStart \/ Attempt \/ WriteRow \/ MonitorMain

Spec == Init /\ [][Next]_vars

(***************************************************************************)
(* Logs handed to the monitor.  A log row gives every asset a value and an *)
(* indicator; under schema "ok" the indicator column is <asset>_ok (1 =    *)
(* present), under schema "missing" it is <asset>_missing (0 = present).   *)
(***************************************************************************)
Schemas == {"ok", "missing"}
Present(schema) == IF schema = "ok" THEN 1 ELSE 0

QuoteOfAsset(a) == Quotes[CHOOSE i \in 1..Len(ASSETS) : ASSETS[i].name = a]

BaseRow(schema) ==
    [a \in AssetNameSet |-> [v |-> Num(QuoteOfAsset(a)), ind |-> Present(schema)]]
ScaledRow(schema) ==
    [a \in AssetNameSet |-> [v |-> Num(3 * QuoteOfAsset(a)), ind |-> Present(schema)]]
AllMissingRow(schema) ==
    [a \in AssetNameSet |-> [v |-> Num(0), ind |-> 1 - Present(schema)]]
PerturbedRow(schema, a, v, ind) ==
    [BaseRow(schema) EXCEPT ![a] = [v |-> v, ind |-> ind]]

BadValues == {Num(0), Num(-1), NaN, Str("abc")}
JumpValues == {Num(100), Num(105), Num(106), Num(1000)}

PerturbedAssets == {"USDJPY", "Gold", "VIX"}

LatestRows(schema) ==
    {BaseRow(schema), ScaledRow(schema), AllMissingRow(schema)}
    \cup {PerturbedRow(schema, a, v, ind) :
            a \in PerturbedAssets, v \in BadValues \cup {Num(1000)}, ind \in {0, 1}}
    \cup {PerturbedRow(schema, "USDJPY", v, ind) : v \in JumpValues, ind \in {0, 1}}

PrevRows(schema) ==
    {BaseRow(schema), ScaledRow(schema), AllMissingRow(schema)}
    \cup {PerturbedRow(schema, "USDJPY", v, ind) :
            v \in {Num(0), NaN, Num(100)}, ind \in {0, 1}}

LogLine(schema, lr) ==
    Line(<<Str("run"), Str("ts")>>
         \o Flatten([i \in 1..Len(AssetKeys) |->
                <<lr[AssetKeys[i]].v, Num(lr[AssetKeys[i]].ind), Str("yfinance"),
                  Str("2026-01-15"), Str("")>>]))

BadLine(schema) ==
    Line(LogLine(schema, BaseRow(schema)).f \o <<Str("x"), Str("y")>>)

\* the audited logs of one schema: header h, older rows, then one or two rows
LogsOf(s, max_older) ==
    LET h == HeaderLine(SchemaCols(s))
        base == LogLine(s, BaseRow(s))
        olders == {[i \in 1..n |-> base] : n \in 0..max_older}
        latest == {LogLine(s, l) : l \in LatestRows(s)}
        prevs == {LogLine(s, p) : p \in PrevRows(s)}
    IN  {FileOf(<<h>>), FileOf(<<h, BadLine(s)>>)}
        \cup {FileOf(<<h>> \o older \o <<l>>) : older \in olders, l \in latest}
        \cup {FileOf(<<h>> \o older \o <<p, l>>) :
                older \in olders, p \in prevs, l \in latest}
        \cup {FileOf(<<h, l, BadLine(s)>>) : l \in latest}

AuditedLogs(max_older) ==
    {AbsentFile, EmptyFile, GarbageFile} \cup UNION {LogsOf(s, max_older) : s \in Schemas}

MonInit ==
    /\ CollectorIdle
    /\ out_csv \in AuditedLogs(MaxOlder)
    /\ environ \in {"0", "1"}
    /\ mon = MonIdle
    /\ call = NoCall
    /\ proc = NoProcs

MonNext == MonitorMain

MonSpec == MonInit /\ [][MonNext]_vars

(***************************************************************************)
(* Properties of collect() (specification Spec).                           *)
(***************************************************************************)
AssetCount == Len(ASSETS)

\* the last line of the primary log, and the lines of retry_trials.csv the
\* current run has appended (a header written by the run left out)
LastRow == out_csv.lines[Len(out_csv.lines)].f
NewTrialLines ==
    SubSeq(retry_trials.lines,
           IF hist.trial_lines = 0 THEN 2 ELSE hist.trial_lines + 1,
           Len(retry_trials.lines))

\* position of the first of the five columns of the k-th asset
ColBase(k) == 2 + 5 * (k - 1)

C1_Assets == <<"USDJPY", "BTC", "Gold", "US10Y", "Oil", "VIX">>
C1_Columns ==
    << "run_id", "timestamp_jst",
       "USDJPY", "USDJPY_missing", "USDJPY_source", "USDJPY_date", "USDJPY_fail",
       "BTC", "BTC_missing", "BTC_source", "BTC_date", "BTC_fail",
       "Gold", "Gold_missing", "Gold_source", "Gold_date", "Gold_fail",
       "US10Y", "US10Y_missing", "US10Y_source", "US10Y_date", "US10Y_fail",
       "Oil", "Oil_missing", "Oil_source", "Oil_date", "Oil_fail",
       "VIX", "VIX_missing", "VIX_source", "VIX_date", "VIX_fail" >>

\* C1: whatever the per-asset outcomes of the run, the row collect() appends
\* to the primary log has exactly 32 fields: run_id, timestamp_jst, then for
\* each asset, in the order of ASSETS, its price, missing flag, source, date
\* and failure reason; EXPECTED_COLS names these 32 columns in that order.
C1_RowWidth ==
    pc = "done" =>
        /\ Len(LastRow) = 32
        /\ EXPECTED_COLS = C1_Columns
        /\ LastRow[1] = Str(run_id)
        /\ LastRow[2].k = "str"
        /\ \A k \in 1..6 :
             LET r == results[C1_Assets[k]]
             IN  /\ LastRow[ColBase(k) + 1] = Num(r.price)
                 /\ LastRow[ColBase(k) + 2] = Num(r.missing)
                 /\ LastRow[ColBase(k) + 3] = Str(r.source)
                 /\ LastRow[ColBase(k) + 4] = Str(r.date)
                 /\ LastRow[ColBase(k) + 5] = Str(r.fail)

\* a finished run in which some assets failed and the others succeeded
C1_Witness ==
    /\ pc = "done"
    /\ results["VIX"].missing = 1
    /\ results["USDJPY"].missing = 0
    /\ Len(LastRow) = 32

\* C2: every run completes: whatever the provider answers (exception, empty
\* result, partial success, total failure), a run inside its loop is at an
\* attempt number within 1..MAX_RETRIES (the guard of Attempt, so its next
\* step can be taken) that is one more than the provider calls it has made
\* (so the loop ends after at most MAX_RETRIES calls), and at its end the run
\* has appended exactly one row holding an entry for every asset and returns 0.
C2_EveryRunCompletes ==
    /\ hist.calls <= MAX_RETRIES
    /\ pc = "attempt" =>
         /\ attempt = hist.calls + 1
         /\ attempt >= 1
         /\ attempt <= MAX_RETRIES
    /\ pc \in {"idle", "attempt", "write", "done"}
    /\ pc = "done" =>
         /\ exit_code = 0
         /\ Len(out_csv.lines)
              = hist.csv_lines + 1 + (IF hist.csv_lines = 0 THEN 1 ELSE 0)
         /\ LastRow # ExpectedFirstLine.f
         /\ DOMAIN results = AssetNameSet
         /\ \A k \in 1..AssetCount : LastRow[ColBase(k) + 2] \in {Num(0), Num(1)}

\* a finished run whose MAX_RETRIES attempts all raised
C2_Witness ==
    /\ pc = "done"
    /\ exit_code = 0
    /\ hist.calls = MAX_RETRIES
    /\ last_err = "ConnectionError"
    /\ \A a \in AssetNameSet : results[a].missing = 1

\* C3: retry protocol: one provider call and one RetryTrial row per attempt,
\* attempts numbered 1, 2, ... in order; the loop goes on only while no
\* attempt was fully successful and fewer than MAX_RETRIES were made, and it
\* ends right after the first fully successful attempt or after attempt
\* MAX_RETRIES; a run that ends on a fully successful attempt records every
\* asset as ok.
C3_RetryProtocol ==
    pc \in {"attempt", "write", "done"} =>
        LET t == NewTrialLines
            full(i) == t[i].f[5] = Num(AssetCount)
        IN  /\ Len(t) = hist.calls
            /\ Len(t) <= MAX_RETRIES
            /\ \A i \in 1..Len(t) : t[i].f[1] = Str(run_id) /\ t[i].f[3] = Num(i)
            /\ \A i \in 1..(Len(t) - 1) : ~full(i)
            /\ pc = "attempt" =>
                 /\ Len(t) = attempt - 1
                 /\ Len(t) < MAX_RETRIES
                 /\ \A i \in 1..Len(t) : ~full(i)
            /\ pc \in {"write", "done"} =>
                 /\ Len(t) >= 1
                 /\ full(Len(t)) \/ Len(t) = MAX_RETRIES
                 /\ full(Len(t)) => \A a \in AssetNameSet : results[a].missing = 0

\* a run whose first fully successful attempt is attempt 3, after an attempt
\* with 5 of 6 assets: three RetryTrial rows
C3_Witness ==
    /\ pc = "done"
    /\ Len(NewTrialLines) = 3
    /\ NewTrialLines[1].f[5] = Num(5)
    /\ NewTrialLines[3].f[3] = Num(3)
    /\ NewTrialLines[3].f[5] = Num(AssetCount)
    /\ \A k \in 1..AssetCount : LastRow[ColBase(k) + 2] = Num(0)

\* C4: an asset extracted successfully at some attempt of the run is recorded
\* as ok, with a positive value, in the row the run persists.
C4_ExtractedOnceRecordedOk ==
    pc = "done" =>
        \A k \in 1..AssetCount :
            AssetKeys[k] \in hist.ever_ok =>
                /\ LastRow[ColBase(k) + 2] = Num(0)
                /\ LastRow[ColBase(k) + 1].n > 0

\* C6: when the monitor has read the row the collector just wrote, every asset
\* the row records as present (missing flag 0, positive value) is classified
\* not missing, and if every asset is so recorded the monitor exits 0.
C6_SchemaAgreement ==
    (pc = "done" /\ mon.pc = "exited" /\ mon.latest = LastRow) =>
        LET present(k) == /\ LastRow[ColBase(k) + 2] = Num(0)
                          /\ LastRow[ColBase(k) + 1].n > 0
        IN  /\ \A k \in 1..AssetCount :
                 present(k) => \A i \in 1..Len(mon.missing) : mon.missing[i] # AssetKeys[k]
            /\ (\A k \in 1..AssetCount : present(k)) => mon.exit = 0

(***************************************************************************)
(* Properties of the monitor (specification MonSpec).  The log is read     *)
(* here by position: the k-th asset's value is field ColBase(k) + 1 of a   *)
(* line and its indicator field ColBase(k) + 2.                            *)
(***************************************************************************)
LogHeader == out_csv.lines[1].f

\* the data lines of the log, those a CSV reader skips as too long left out
LogRows ==
    IF out_csv.lines = <<>> THEN <<>>
    ELSE SelectSeq(Tail(out_csv.lines), LAMBDA l : Len(l.f) <= Len(LogHeader))

\* the log exists, can be parsed and holds at least one data row
Readable == out_csv.exists /\ ~out_csv.garbage /\ LogRows # <<>>

LatestLine == LogRows[Len(LogRows)].f
PrevLine == LogRows[Len(LogRows) - 1].f

ValueOf(line, k) == line[ColBase(k) + 1]
IndicatorOf(line, k) == line[ColBase(k) + 2]

\* 0, negative, NaN or non-numeric
BadValue(c) == c.k # "num" \/ c.n <= 0

\* the indicator column is <asset>_ok and the line holds 1 in it
SaysPresent(line, k) ==
    /\ LogHeader[ColBase(k) + 2] = Str(C1_Assets[k] \o "_ok")
    /\ IndicatorOf(line, k) = Num(1)

MissingIn(line, k) == ~SaysPresent(line, k) \/ BadValue(ValueOf(line, k))

MissingAssetsOf(line) ==
    LET idx == SelectSeq([k \in 1..AssetCount |-> k], LAMBDA k : MissingIn(line, k))
    IN  [j \in 1..Len(idx) |-> C1_Assets[idx[j]]]

InSeq(x, seq) == \E i \in 1..Len(seq) : seq[i] = x

\* C5: with anomalies not fatal, the monitor on a readable log with at least
\* one row takes the last row as latest, classifies as missing exactly the
\* assets that are missing in that row (whatever the earlier rows hold), and
\* exits 1 if and only if that list is not empty, 0 otherwise.
C5_ExitIffMissingInLastRow ==
    (mon.pc # "idle" /\ Readable /\ environ = "0") =>
        /\ mon.pc = "exited"
        /\ mon.latest = LatestLine
        /\ mon.missing = MissingAssetsOf(LatestLine)
        /\ mon.exit \in {0, 1}
        /\ mon.exit = 1 <=> \E k \in 1..AssetCount : MissingIn(LatestLine, k)

\* exit 0 on a log whose last row has no missing asset and whose row before
\* has every asset missing
C5_Witness ==
    /\ mon.pc = "exited"
    /\ environ = "0"
    /\ Readable
    /\ mon.exit = 0
    /\ Len(LogRows) >= 2
    /\ \A k \in 1..AssetCount : MissingIn(PrevLine, k) /\ ~MissingIn(LatestLine, k)

\* C7: silent-zero defence: an asset whose value in the last row is 0,
\* negative, NaN or not a number is classified missing and the monitor exits
\* 1, whatever the asset's indicator holds.
C7_SilentZeroDefence ==
    (mon.pc # "idle" /\ Readable) =>
        \A k \in 1..AssetCount :
            BadValue(ValueOf(LatestLine, k)) =>
                /\ mon.pc = "exited"
                /\ mon.exit = 1
                /\ InSeq(C1_Assets[k], mon.missing)

\* Gold is recorded with value 0 and an indicator saying present, every other
\* asset is fine: Gold alone is classified missing
C7_Witness ==
    /\ mon.pc = "exited"
    /\ Readable
    /\ SaysPresent(LatestLine, 3)
    /\ ValueOf(LatestLine, 3) = Num(0)
    /\ mon.missing = <<"Gold">>
    /\ mon.exit = 1

\* C8: when the primary log is absent, empty (no bytes, or no data row) or
\* cannot be parsed, the monitor ends by exiting 1, having classified no
\* asset; it neither exits 0 nor leaves through another exception.
C8_UnreadableLogExitsOne ==
    (mon.pc # "idle" /\ ~Readable) =>
        /\ mon.pc = "exited"
        /\ mon.exit = 1
        /\ mon.classified = <<>>
        /\ mon.missing = <<>>
        /\ mon.warnings = <<>>

\* the monitor has exited 1 on a log that holds a header and no data row
C8_Witness ==
    /\ mon.pc = "exited"
    /\ mon.exit = 1
    /\ mon.classified = <<>>
    /\ out_csv.exists
    /\ Len(out_csv.lines) = 1

\* C9: when no asset of the last row is missing, the monitor exits 0 under
\* the default configuration however many warnings it reports, and exits 1
\* exactly when MONITOR_FAIL_ON_ANOMALY is "1" and there is a warning; no
\* asset classified missing has a warning.
C9_MissingAnomalyAsymmetry ==
    (mon.pc # "idle" /\ Readable) =>
        /\ (\A k \in 1..AssetCount : ~MissingIn(LatestLine, k)) =>
             /\ mon.pc = "exited"
             /\ mon.missing = <<>>
             /\ environ = "0" => mon.exit = 0
             /\ mon.exit = 1 <=> (environ = "1" /\ mon.warnings # <<>>)
             /\ mon.exit \in {0, 1}
        /\ \A i \in 1..Len(mon.warnings) : ~InSeq(mon.warnings[i].asset, mon.missing)

\* several anomalies, none fatal: exit 0 under the default configuration
C9_Witness ==
    /\ mon.pc = "exited"
    /\ environ = "0"
    /\ Readable
    /\ \A k \in 1..AssetCount : ~MissingIn(LatestLine, k)
    /\ Len(mon.warnings) >= 2
    /\ mon.exit = 0

\* the monitor has audited a log whose last row holds the present value v for
\* USDJPY (threshold 0.05) and whose row before holds the present value 100
C10_Case(v) ==
    /\ mon.pc = "exited"
    /\ Readable
    /\ Len(LogRows) >= 2
    /\ ~MissingIn(PrevLine, 1)
    /\ ValueOf(PrevLine, 1) = Num(100)
    /\ ~MissingIn(LatestLine, 1)
    /\ ValueOf(LatestLine, 1) = Num(v)

JumpReported == InSeq([asset |-> "USDJPY", kind |-> "jump"], mon.warnings)

\* C10 as stated: after 100, at threshold 0.05, 106 is not reported as
\* anomalous and 1000 is.
C10_Original ==
    /\ C10_Case(106) => ~JumpReported
    /\ C10_Case(1000) => JumpReported

\* C10: the jump test is strict, pct > thr: after 100, at threshold 0.05, the
\* new value 105 (exactly 5%) is not reported as anomalous, 106 is, and 1000
\* is.
C10_ThresholdIsStrict ==
    /\ C10_Case(105) => ~JumpReported
    /\ C10_Case(106) => JumpReported
    /\ C10_Case(1000) => JumpReported

\* 106 after 100 has been reported as a jump
C10_Witness == C10_Case(106) /\ JumpReported

\* the most recent row before the last one in which the k-th asset is not
\* missing (0 when there is none)
PrevGoodIndex(k) ==
    LET good == {i \in 1..(Len(LogRows) - 1) : ~MissingIn(LogRows[i].f, k)}
    IN  IF good = {} THEN 0 ELSE CHOOSE i \in good : \A j \in good : j <= i

\* C11: for an asset not missing in the last row, a jump is reported exactly
\* when there is an earlier row in which the asset is not missing and the
\* value differs from that of the most recent such row by more than the
\* asset's threshold (rows in which the asset is missing are skipped).
C11_AnomalyAgainstPreviousGood ==
    (mon.pc = "exited" /\ Readable) =>
        \A k \in 1..AssetCount :
            ~MissingIn(LatestLine, k) =>
                LET i == PrevGoodIndex(k)
                    a == C1_Assets[k]
                    v == ValueOf(LatestLine, k).n
                IN  InSeq([asset |-> a, kind |-> "jump"], mon.warnings)
                    <=> /\ i # 0
                        /\ LET pg == ValueOf(LogRows[i].f, k).n
                           IN  Abs(v - pg) * 100 > MAX_PCT_JUMP_WARN[a] * pg

(***************************************************************************)
(* Properties of SchemaGuard and of the appends (specification Spec).      *)
(***************************************************************************)
\* a step of collect() from its start to its first attempt: the SchemaGuard
GuardStep == pc \in {"idle", "done"} /\ pc' = "attempt"

\* the file exists, is not empty, and its first line names other columns
\* than the 32 expected ones
HeaderMismatch(file) ==
    /\ file.exists
    /\ ~file.garbage
    /\ file.lines # <<>>
    /\ file.lines[1].f # [i \in 1..Len(C1_Columns) |-> Str(C1_Columns[i])]

C12_QuarantineStep ==
    (GuardStep /\ HeaderMismatch(out_csv)) =>
        /\ ~out_csv'.exists
        /\ _ts_suffix(now) \in DOMAIN bad_files'
        /\ bad_files'[_ts_suffix(now)] = out_csv

C12_FreshHeader ==
    (/\ pc = "done"
     /\ hist.csv_lines = 0
     /\ \E n \in DOMAIN bad_files : HeaderMismatch(bad_files[n])) =>
        /\ Len(out_csv.lines) = 2
        /\ out_csv.lines[1].f = [i \in 1..Len(C1_Columns) |-> Str(C1_Columns[i])]
        /\ out_csv.lines[1].q

\* C12: the SchemaGuard, on an existing non-empty primary log whose header
\* names other columns than the expected ones, moves the file aside under a
\* name with the timestamp suffix: after the step the path does not exist and
\* the quarantined file holds the old content; the run's append then writes
\* the expected header, followed by its row.
C12_SchemaGuardQuarantines == [][C12_QuarantineStep]_vars /\ []C12_FreshHeader

\* a finished run that quarantined a log with <asset>_ok columns and wrote a
\* new log with the expected header
C12_Witness ==
    /\ pc = "done"
    /\ hist.csv_lines = 0
    /\ \E n \in DOMAIN bad_files :
         /\ HeaderMismatch(bad_files[n])
         /\ Len(bad_files[n].lines) = 2
    /\ Len(out_csv.lines) = 2
    /\ out_csv.lines[1] = ExpectedFirstLine

\* the step of collect() that appends the run's row to the primary log
AppendStep == pc = "write" /\ pc' = "done"

ExpectedHeaderFields == [i \in 1..Len(C1_Columns) |-> Str(C1_Columns[i])]

NewOrEmpty(file) == ~file.exists \/ (~file.garbage /\ file.lines = <<>>)

C13_AppendUnderHeader ==
    AppendStep =>
        /\ NewOrEmpty(out_csv) \/ (~out_csv.garbage /\ out_csv.lines[1].f = ExpectedHeaderFields)
        /\ ~out_csv'.garbage
        /\ out_csv'.lines[1].f = ExpectedHeaderFields
        /\ Len(out_csv'.lines) >= 2
        /\ Len(out_csv'.lines[Len(out_csv'.lines)].f) = Len(C1_Columns)

C13_HeaderAfterGuard ==
    (pc \in {"attempt", "write", "done"} /\ ~NewOrEmpty(out_csv)) =>
        /\ ~out_csv.garbage
        /\ out_csv.lines[1].f = ExpectedHeaderFields

C14_TrialHeader ==
    [q |-> TRUE,
     f |-> << Str("run_id"), Str("timestamp_jst"), Str("attempt"), Str("symbols"),
              Str("ok_count"), Str("fail_count"), Str("error"), Str("sleep_sec") >>]
C14_PrimaryHeader == [q |-> TRUE, f |-> ExpectedHeaderFields]

\* new is old with header h written if old is absent or empty, then one row
IsAppend(old, new, h) ==
    /\ new.exists
    /\ new.garbage = old.garbage
    /\ LET n == Len(old.lines)
       IN  IF NewOrEmpty(old)
           THEN /\ Len(new.lines) = 2
                /\ new.lines[1] = h
                /\ new.lines[2] # h
           ELSE /\ Len(new.lines) = n + 1
                /\ SubSeq(new.lines, 1, n) = old.lines
                /\ new.lines[n + 1] # h

HeaderOnce(file, h) ==
    file.lines # <<>> =>
        /\ file.lines[1] = h
        /\ \A i \in 2..Len(file.lines) : file.lines[i] # h

C14_EveryAppend ==
    /\ (out_csv' # out_csv /\ ~GuardStep) => IsAppend(out_csv, out_csv', C14_PrimaryHeader)
    /\ retry_trials' # retry_trials => IsAppend(retry_trials, retry_trials', C14_TrialHeader)
    /\ AppendStep => out_csv' # out_csv
    /\ (pc = "attempt" /\ pc' # pc) => retry_trials' # retry_trials

C14_HeaderFirstOnly ==
    /\ HeaderOnce(retry_trials, C14_TrialHeader)
    /\ (pc = "done" /\ hist.csv_lines = 0) => HeaderOnce(out_csv, C14_PrimaryHeader)

\* C14: pure append: every write to the primary log by the row append and
\* every write to the retry-trial log writes the header if and only if the
\* file is absent or empty at that moment, then exactly one row, after the
\* unchanged previous content; in a log that started absent or empty the
\* header is the first line and no other line.
C14_PureAppend == [][C14_EveryAppend]_vars /\ []C14_HeaderFirstOnly

\* two runs have appended to logs that started absent: each log holds its
\* header once, then the rows
C14_Witness ==
    /\ pc = "done"
    /\ runs = 2
    /\ bad_files = <<>>
    /\ Len(out_csv.lines) = 3
    /\ out_csv.lines[1] = C14_PrimaryHeader
    /\ Len(retry_trials.lines) = 3
    /\ retry_trials.lines[1] = C14_TrialHeader

\* C15: every record the current run has written (its RetryTrial rows, its
\* transport-evidence records, its primary-log row) carries the run's run_id,
\* and no record written before the run started carries it: run_id selects
\* exactly the records of one run.
C15_RunCorrelation ==
    pc \in {"attempt", "write", "done"} =>
        /\ \A i \in 1..Len(NewTrialLines) : NewTrialLines[i].f[1] = Str(run_id)
        /\ Len(SelectSeq(http_probe, LAMBDA p : p.run_id = run_id)) >= hist.calls
        /\ pc = "done" => LastRow[1] = Str(run_id)
        /\ \A i \in 2..hist.trial_lines : retry_trials.lines[i].f[1] # Str(run_id)
        /\ \A i \in 2..hist.csv_lines : out_csv.lines[i].f[1] # Str(run_id)

(***************************************************************************)
(* Direct calls of the collector's functions (specification CallSpec).     *)
(***************************************************************************)
\* random.uniform(0.0, 2.0), in whole seconds
JitterRange == 0..2

\* the delays of one run whose attempts all fail: sleep_sec as computed at
\* line 346 after attempt k, and the duration _sleep_with_jitter(sleep_sec)
\* hands to time.sleep, for one draw of the jitter per attempt
BackoffCall ==
    /\ \E js \in [1..MAX_RETRIES -> JitterRange] :
         call' = [op |-> "backoff",
                  jitter |-> js,
                  sleep_sec |-> [k \in 1..MAX_RETRIES |-> sleep_sec_of(FALSE, k)],
                  slept |-> [k \in 1..MAX_RETRIES |->
                                _sleep_with_jitter(sleep_sec_of(FALSE, k), js[k])]]
    /\ UNCHANGED <<out_csv, environ, mon, collector_vars, proc>>

\* close series of the ticker asked for, and of another ticker
OwnSeries ==
    { <<Num(149), Num(150)>>, <<Num(150), NaN>>, <<NaN, Num(150)>>, <<NaN, NaN>>,
      <<Str("abc"), Str("abc")>>, <<Num(150), Str("abc")>>, <<Num(150), Num(0)>>,
      <<Num(150), Num(-1)>>, <<Num(0), NaN>> }
OtherSeries == { <<Num(998), Num(999)>>, <<NaN, NaN>> }
OpenSeries == <<Num(7), Num(8)>>

OtherTicker(ticker) == IF ticker = "JPY=X" THEN "^VIX" ELSE "JPY=X"

Shapes ==
    {"none", "empty", "no_rows", "close_first", "ticker_first", "other_only",
     "single", "single_no_close", "duplicate"}

\* the frame of a shape: own is the close series of ticker, other that of
\* the other ticker
ShapedFrame(shape, ticker, own, other) ==
    LET x == ticker
        y == OtherTicker(ticker)
        price_first == [c \in {<<"Close", x>>, <<"Close", y>>, <<"Open", x>>, <<"Open", y>>} |->
                          IF c = <<"Close", x>> THEN own
                          ELSE IF c = <<"Close", y>> THEN other ELSE OpenSeries]
        ticker_first == [c \in {<<x, "Close">>, <<y, "Close">>, <<x, "Open">>, <<y, "Open">>} |->
                           IF c = <<x, "Close">> THEN own
                           ELSE IF c = <<y, "Close">> THEN other ELSE OpenSeries]
        other_only == [c \in {<<"Close", y>>, <<"Open", x>>, <<"Open", y>>} |->
                         IF c = <<"Close", y>> THEN other ELSE OpenSeries]
        single == [c \in {<<"Close", "">>, <<"Open", "">>} |->
                     IF c = <<"Close", "">> THEN own ELSE OpenSeries]
        no_close == [c \in {<<"Open", "">>} |-> OpenSeries]
    IN  CASE shape = "none" -> NoFrame("ConnectionError")
          [] shape = "empty" -> EmptyFrame
          [] shape = "no_rows" ->
               Frame(TRUE, DOMAIN price_first, <<>>, [c \in DOMAIN price_first |-> <<>>])
          [] shape = "close_first" -> Frame(TRUE, DOMAIN price_first, TwoDays, price_first)
          [] shape = "ticker_first" -> Frame(TRUE, DOMAIN ticker_first, TwoDays, ticker_first)
          [] shape = "other_only" -> Frame(TRUE, DOMAIN other_only, TwoDays, other_only)
          [] shape = "single" -> Frame(FALSE, DOMAIN single, TwoDays, single)
          [] shape = "single_no_close" -> Frame(FALSE, DOMAIN no_close, TwoDays, no_close)
          [] shape = "duplicate" ->
               [Frame(TRUE, DOMAIN price_first, TwoDays, price_first)
                  EXCEPT !.dup = {<<"Close", x>>}]

\* _extract_last_close(df, ticker) on one frame
ExtractCall ==
    /\ \E shape \in Shapes, ticker \in {"JPY=X", "^VIX"}, own \in OwnSeries,
          other \in OtherSeries :
         call' = [op |-> "extract", shape |-> shape, ticker |-> ticker, own |-> own,
                  other |-> other,
                  out |-> _extract_last_close(ShapedFrame(shape, ticker, own, other),
                                              ticker)]
    /\ UNCHANGED <<out_csv, environ, mon, collector_vars, proc>>

\* _extract_last_close on the two two-level shapes of the same data
SymmetryCall ==
    /\ \E ticker \in {"JPY=X", "^VIX"}, own \in OwnSeries, other \in OtherSeries :
         call' = [op |-> "symmetry", ticker |-> ticker, own |-> own, other |-> other,
                  close_first |->
                      _extract_last_close(ShapedFrame("close_first", ticker, own, other),
                                          ticker),
                  ticker_first |->
                      _extract_last_close(ShapedFrame("ticker_first", ticker, own, other),
                                          ticker)]
    /\ UNCHANGED <<out_csv, environ, mon, collector_vars, proc>>

\* the per-asset loop of collect() on a batch answer
ResultsCall ==
    /\ \E failing \in SUBSET TickerSet :
         call' = [op |-> "results", failing |-> failing,
                  results |-> attempt_results(BatchFrame(failing))]
    /\ UNCHANGED <<out_csv, environ, mon, collector_vars, proc>>

\* _ensure_csv_header_or_quarantine(OUT_CSV) at time t1 on one file, then
\* at time t2 on the file that is at the path by then
GuardCall ==
    /\ \E first \in InitialLogs, second \in InitialLogs, t1 \in {100}, t2 \in {100, 101} :
         LET g1 == _ensure_csv_header_or_quarantine(first, <<>>, t1)
             g2 == _ensure_csv_header_or_quarantine(second, g1.bad, t2)
         IN  call' = [op |-> "guard", first |-> first, second |-> second,
                      t1 |-> t1, t2 |-> t2, after1 |-> g1, after2 |-> g2]
    /\ UNCHANGED <<out_csv, environ, mon, collector_vars, proc>>

\* one pass of the per-asset loop of collect(), lines 326-343, on one frame
AssetResultCall ==
    /\ \E shape \in {"close_first", "ticker_first", "single", "none"},
          ticker \in {"JPY=X", "^VIX"}, own \in OwnSeries, other \in OtherSeries :
         LET df == ShapedFrame(shape, ticker, own, other)
         IN  call' = [op |-> "asset_result", shape |-> shape, ticker |-> ticker,
                      own |-> own, other |-> other, index |-> TwoDays,
                      out |-> asset_result(df, ticker)]
    /\ UNCHANGED <<out_csv, environ, mon, collector_vars, proc>>

CallInit ==
    /\ CollectorIdle
    /\ out_csv = AbsentFile
    /\ environ = "0"
    /\ mon = MonIdle
    /\ call = NoCall
    /\ proc = NoProcs

CallNext ==
    BackoffCall \/ ExtractCall \/ SymmetryCall \/ ResultsCall \/ GuardCall
        \/ AssetResultCall

CallSpec == CallInit /\ [][CallNext]_vars

\* C16: the backoff delay is non-decreasing in the attempt number, with and
\* without the jitter (whatever jitter is drawn for either attempt), and is
\* never negative.
C16_BackoffNonDecreasing ==
    call.op = "backoff" =>
        /\ \A k \in 1..(MAX_RETRIES - 1) :
             /\ call.sleep_sec[k + 1] >= call.sleep_sec[k]
             /\ call.slept[k + 1] >= call.slept[k]
        /\ \A k \in 1..MAX_RETRIES :
             /\ call.sleep_sec[k] >= 0
             /\ call.slept[k] >= 0

\* the largest jitter after attempt 1 and the smallest after attempt 2
C16_Witness ==
    /\ call.op = "backoff"
    /\ call.jitter[1] = 2
    /\ call.jitter[2] = 0
    /\ call.slept[1] = 17
    /\ call.slept[2] = 30

\* C20: the delay planned after failed attempt k is BASE_SLEEP * 2^(k-1),
\* that is 15, 30, 60, 120 for k = 1..4, never more than the largest delay
\* the MAX_RETRIES attempts allow, and the jitter adds between 0 and 2 seconds.
C20_BackoffSchedule ==
    call.op = "backoff" =>
        /\ call.sleep_sec = <<15, 30, 60, 120>>
        /\ \A k \in 1..MAX_RETRIES :
             /\ call.sleep_sec[k] <= 120
             /\ call.slept[k] - call.sleep_sec[k] >= 0
             /\ call.slept[k] - call.sleep_sec[k] <= 2

\* a schedule with jitters 0 and 2
C20_Witness ==
    /\ call.op = "backoff"
    /\ call.slept[1] = 15
    /\ call.slept[3] = 62
    /\ call.sleep_sec[4] = 120

\* the numeric entries of a series and the last of them
NumericEntries(series) == SelectSeq(series, LAMBDA c : c.k = "num")
LastNumeric(series) == NumericEntries(series)[Len(NumericEntries(series))].n
HasPositiveLast(series) == NumericEntries(series) # <<>> /\ LastNumeric(series) > 0

\* C17: shape symmetry: on the same close series of the ticker, the frame
\* keyed (Close, ticker) and the frame keyed (ticker, Close) give the same
\* result: the same price with an empty reason, or the same failure.
C17_ShapeSymmetry ==
    call.op = "symmetry" =>
        /\ call.close_first = call.ticker_first
        /\ call.close_first.some <=> HasPositiveLast(call.own)
        /\ call.close_first.some =>
             /\ call.ticker_first.v = LastNumeric(call.own)
             /\ call.ticker_first.why = ""

\* both shapes yield the price 150
C17_Witness ==
    /\ call.op = "symmetry"
    /\ call.own = <<Num(149), Num(150)>>
    /\ call.close_first.some
    /\ call.ticker_first.some
    /\ call.ticker_first.v = 150

\* C18: no cross-symbol contamination: on a two-level frame a price returned
\* for a ticker is the last numeric close of that ticker's own series; with
\* neither a (Close, ticker) nor a (ticker, Close) column the result is the
\* failure CloseNotFoundForTicker; and in the results of an attempt every
\* asset recorded ok holds the quote of its own ticker, every other asset
\* being recorded missing.
C18_NoCrossSymbol ==
    /\ (call.op = "extract"
          /\ call.shape \in {"close_first", "ticker_first", "other_only", "duplicate"}) =>
         /\ call.out.some =>
              /\ call.shape \in {"close_first", "ticker_first"}
              /\ HasPositiveLast(call.own)
              /\ call.out.v = LastNumeric(call.own)
         /\ call.shape = "other_only" =>
              /\ ~call.out.some
              /\ call.out.why = "CloseNotFoundForTicker"
    /\ call.op = "results" =>
         \A k \in 1..AssetCount :
             LET r == call.results[C1_Assets[k]]
             IN  IF ASSETS[k].ticker \in call.failing
                 THEN r.missing = 1 /\ r.price = 0
                 ELSE r.missing = 0 /\ r.price = Quotes[k]

\* the ticker has no close column while the other ticker has a valid one
C18_Witness ==
    /\ call.op = "extract"
    /\ call.shape = "other_only"
    /\ call.other = <<Num(998), Num(999)>>
    /\ call.out.why = "CloseNotFoundForTicker"

\* C19: extraction failure is data: every call returns either a price with
\* an empty reason or no price with a non-empty reason; a price is returned
\* only when the frame has the ticker's close column and the last numeric
\* entry of the series is greater than 0, and is that entry; an absent or
\* empty frame, an absent close column, a series without numeric entries, a
\* zero or negative last value and an exception inside the extraction are
\* failures.
C19_FailureIsData ==
    call.op = "extract" =>
        LET out == call.out
            found == call.shape \in {"close_first", "ticker_first", "single"}
        IN  /\ out.some \in BOOLEAN
            /\ out.some => out.v > 0 /\ out.why = ""
            /\ ~out.some => out.why # ""
            /\ out.some <=> (found /\ HasPositiveLast(call.own))
            /\ out.some => out.v = LastNumeric(call.own)
            /\ call.shape \in {"none", "empty", "no_rows"} => out.why = "EmptyDF"
            /\ call.shape = "single_no_close" => out.why = "CloseMissing"
            /\ call.shape = "duplicate" => out.why = "ExtractErr:TypeError"
            /\ (found /\ NumericEntries(call.own) = <<>>) => out.why = "NoNumericClose"
            /\ (found /\ NumericEntries(call.own) # <<>> /\ LastNumeric(call.own) <= 0) =>
                 out.why = "NonPositive"

\* a series whose last value is zero is a failure, not a price of 0
C19_Witness ==
    /\ call.op = "extract"
    /\ call.shape = "close_first"
    /\ call.own = <<Num(150), Num(0)>>
    /\ ~call.out.some
    /\ call.out.why = "NonPositive"

(***************************************************************************)
(* Further properties of collect() (specification Spec).                   *)
(***************************************************************************)
\* C21: the collector sleeps only between attempts: once after each attempt
\* that was not fully successful and was not attempt MAX_RETRIES, for the
\* backoff delay of that attempt plus the jitter; never before attempt 1,
\* never after a fully successful attempt, never after the final attempt;
\* so each provider call after the first follows exactly one sleep.
C21_SleepsOnlyBetweenAttempts ==
    pc \in {"attempt", "write", "done"} =>
        LET t == NewTrialLines
            sleeps == hist.sleeps
        IN  /\ Len(t) = hist.calls
            /\ pc = "attempt" => Len(sleeps) = hist.calls
            /\ pc \in {"write", "done"} => Len(sleeps) = hist.calls - 1
            /\ \A k \in 1..Len(sleeps) :
                 /\ k < MAX_RETRIES
                 /\ t[k].f[5] # Num(AssetCount)
                 /\ sleeps[k] - 15 * (2 ^ (k - 1)) \in 0..2
            /\ (hist.calls >= 1 /\ t[1].f[5] = Num(AssetCount)) => sleeps = <<>>

\* a run that succeeded at attempt 3 slept after attempts 1 and 2 only
C21_Witness ==
    /\ pc = "done"
    /\ hist.calls = 3
    /\ NewTrialLines[3].f[5] = Num(AssetCount)
    /\ Len(hist.sleeps) = 2
    /\ hist.sleeps[1] >= 15
    /\ hist.sleeps[2] >= 30

\* a full parse of the file fails: some data line has more fields than the
\* header
BodyUnparseable(file) ==
    /\ file.lines # <<>>
    /\ \E i \in 2..Len(file.lines) : Len(file.lines[i].f) > Len(file.lines[1].f)

\* C22: a primary log whose header has the expected columns and whose body
\* fails a full parse is quarantined by the SchemaGuard: from the guard of a
\* run on, and when the run appends its row, the file at the path does not
\* have the expected header over an unparseable body.
C22_CorruptBodyQuarantined ==
    (pc \in {"attempt", "write", "done"} /\ ~NewOrEmpty(out_csv)) =>
        ~(/\ out_csv.lines[1].f = ExpectedHeaderFields
          /\ BodyUnparseable(out_csv))

Quarantined(bad, file) == \E n \in DOMAIN bad : bad[n] = file

\* C23: quarantine preserves data: each SchemaGuard call leaves the file at
\* the path untouched or moves it aside, and after two calls, also within
\* the same clock second, every file that was moved aside is still among the
\* quarantined files with its content.
C23_QuarantinePreservesData ==
    call.op = "guard" =>
        /\ call.after1.file \in {call.first, AbsentFile}
        /\ call.after2.file \in {call.second, AbsentFile}
        /\ call.after1.file # call.first => Quarantined(call.after1.bad, call.first)
        /\ call.after1.file # call.first => Quarantined(call.after2.bad, call.first)
        /\ call.after2.file # call.second => Quarantined(call.after2.bad, call.second)

(***************************************************************************)
(* Two collector processes on the same files (specification ConcSpec).     *)
(* Each file operation is one step: the SchemaGuard, the test of          *)
(* `header = (not exists) or getsize == 0`, and the to_csv append that     *)
(* follows it.  The transport probe and the sleeps are left out.           *)
(***************************************************************************)
Procs == {1, 2}

\* attempts a concurrent process makes at most
MaxProcAttempts == 2

\* the random part of new_run_id() in process p
RandomOf(p) == IF p = 1 THEN 100000 ELSE 999999

ProcIdle ==
    [pc |-> "idle", run_id |-> "", attempt |-> 0, results |-> <<>>, err |-> "",
     ok |-> 0, fail |-> 0, header |-> FALSE]

\* lines 304-314
ProcStart(p) ==
    /\ proc[p].pc = "idle"
    /\ LET g == _ensure_csv_header_or_quarantine(out_csv, bad_files, now)
       IN  /\ out_csv' = g.file
           /\ bad_files' = g.bad
    /\ proc' = [proc EXCEPT ![p] = [@ EXCEPT !.pc = "attempt",
                                             !.run_id = new_run_id(now, RandomOf(p)),
                                             !.attempt = 1]]
    /\ UNCHANGED <<now, retry_trials, http_probe, runs, pc, run_id, attempt, results,
                   last_err, exit_code, hist, calls, environ, mon, call>>

\* lines 320-346, and the header test of _append_retry_trial, line 149
ProcDownload(p) ==
    /\ proc[p].pc = "attempt"
    /\ \E answer \in {NoFrame("ConnectionError"), BatchFrame({})} :
         LET dl == _yf_download_multi(answer)
             res == attempt_results(dl.df)
         IN  proc' = [proc EXCEPT ![p] =
                        [@ EXCEPT !.pc = "trial_write",
                                  !.results = res,
                                  !.err = dl.err,
                                  !.ok = Cardinality({a \in AssetNameSet : res[a].missing = 0}),
                                  !.fail = Cardinality({a \in AssetNameSet : res[a].missing = 1}),
                                  !.header = needs_header(retry_trials)]]
    /\ UNCHANGED <<out_csv, environ, mon, collector_vars, call>>

\* df.to_csv of _append_retry_trial, lines 150-158, then lines 359-365
ProcTrialWrite(p) ==
    /\ proc[p].pc = "trial_write"
    /\ LET me == proc[p]
           all_ok == (me.ok = Len(ASSETS))
           retry == should_retry(all_ok, me.attempt) /\ me.attempt < MaxProcAttempts
       IN  /\ retry_trials' =
                 to_csv_append(retry_trials, me.header, TRIAL_COLS,
                               trial_row(me.run_id, now, me.attempt, me.ok, me.fail,
                                         me.err, sleep_sec_of(all_ok, me.attempt),
                                         AssetValues))
           /\ proc' = [proc EXCEPT ![p] =
                         [@ EXCEPT !.pc = IF retry THEN "attempt" ELSE "row_check",
                                   !.attempt = IF retry THEN @ + 1 ELSE @]]
    /\ UNCHANGED <<now, out_csv, bad_files, http_probe, runs, pc, run_id, attempt,
                   results, last_err, exit_code, hist, calls, environ, mon, call>>

\* lines 368-378: the row, and the header test
ProcRowCheck(p) ==
    /\ proc[p].pc = "row_check"
    /\ proc' = [proc EXCEPT ![p] = [@ EXCEPT !.pc = "row_write",
                                             !.header = needs_header(out_csv)]]
    /\ UNCHANGED <<out_csv, environ, mon, collector_vars, call>>

\* out_df.to_csv, lines 379-387
ProcRowWrite(p) ==
    /\ proc[p].pc = "row_write"
    /\ LET me == proc[p]
           row == frame_row(row_dict(me.run_id, now, me.results), EXPECTED_COLS)
       IN  out_csv' = to_csv_append(out_csv, me.header, EXPECTED_COLS, row)
    /\ proc' = [proc EXCEPT ![p] = [@ EXCEPT !.pc = "done"]]
    /\ UNCHANGED <<now, bad_files, retry_trials, http_probe, runs, pc, run_id, attempt,
                   results, last_err, exit_code, hist, calls, environ, mon, call>>

ConcInit ==
    /\ CollectorIdle
    /\ out_csv \in {AbsentFile,
                    FileOf(<<ExpectedFirstLine, Line(EarlierRow(BatchFrame({})))>>)}
    /\ environ = "0"
    /\ mon = MonIdle
    /\ call = NoCall
    /\ proc = [p \in Procs |-> ProcIdle]

ConcNext ==
    \E p \in Procs :
        \/ ProcStart(p)
        \/ ProcDownload(p)
        \/ ProcTrialWrite(p)
        \/ ProcRowCheck(p)
        \/ ProcRowWrite(p)

ConcSpec == ConcInit /\ [][ConcNext]_vars

\* C24: under every interleaving of two concurrent collector runs, each log
\* holds its header exactly once, as its first line, followed only by data
\* rows; when both runs are over the primary log holds one new row per run
\* and the retry-trial log one row per attempt.
C24_ConcurrentAppendsWellFormed ==
    /\ HeaderOnce(retry_trials, C14_TrialHeader)
    /\ HeaderOnce(out_csv, C14_PrimaryHeader)
    /\ (\A p \in Procs : proc[p].pc = "done") =>
         /\ Len(retry_trials.lines) = 1 + proc[1].attempt + proc[2].attempt
         /\ Len(SelectSeq(out_csv.lines, LAMBDA l : l # C14_PrimaryHeader)) \in {2, 3}

\* C25: in the row a run has persisted, an asset recorded as failed holds
\* value 0, the missing indicator 1, source "missing", an empty date and a
\* non-empty failure reason, the last one observed for the asset; an asset
\* recorded as ok holds a positive value, the provider as source and an empty
\* failure reason.
C25_FailedAndOkFields ==
    pc = "done" =>
        \A k \in 1..AssetCount :
            LET base == ColBase(k)
                recorded == results[AssetKeys[k]]
            IN  IF LastRow[base + 2] = Num(1)
                THEN /\ LastRow[base + 1] = Num(0)
                     /\ LastRow[base + 3] = Str("missing")
                     /\ LastRow[base + 4] = Str("")
                     /\ LastRow[base + 5] # Str("")
                     /\ LastRow[base + 5] = Str(recorded.fail)
                ELSE /\ LastRow[base + 2] = Num(0)
                     /\ LastRow[base + 1].k = "num"
                     /\ LastRow[base + 1].n > 0
                     /\ LastRow[base + 3] = Str("yfinance")
                     /\ LastRow[base + 5] = Str("")

\* position in a series of its last entry that is numeric
LastNumericAt(series) ==
    CHOOSE i \in 1..Len(series) :
        /\ IsNumeric(series[i])
        /\ \A j \in (i + 1)..Len(series) : ~IsNumeric(series[j])

\* C26: the date recorded for a successfully fetched asset is the calendar
\* day of the index entry its price was taken from, the last entry of its
\* own close series that is numeric, also when the frame has a later row in
\* which only another asset has a close.
C26_DateOfOwnLastClose ==
    (call.op = "asset_result" /\ call.out.missing = 0) =>
        /\ call.out.price = call.own[LastNumericAt(call.own)].n
        /\ call.out.date = call.index[LastNumericAt(call.own)].day

====
